---------------------------- MODULE Spec2Model ----------------------------
(***************************************************************************)
(* Model of the two Streamlit scripts of the EWASTE repository:            *)
(*                                                                         *)
(*   src/EWASTE.py            the method comparison (evaluate_method)      *)
(*   src/biorecovery_app.py   the bioleaching response model               *)
(*                            (gauss_factor, monod_factor,                 *)
(*                             recovery_fraction)                          *)
(*                                                                         *)
(* The floats of biorecovery_app.py, which needs exp, are modelled as       *)
(* decimal fixed-point numbers: the integer v stands for v / SCALE, and     *)
(* every operation rounds its exact result to the nearest representable     *)
(* value, as IEEE-754 arithmetic does. The floats of EWASTE.py are exact    *)
(* rationals, and np.nan is the distinguished value NaN.                    *)
(***************************************************************************)
EXTENDS Integers, Sequences, FiniteSets, TLC

VARIABLES
    ns,      \* EWASTE.py: the module namespace after a run (name -> value)
    raised,  \* EWASTE.py: the exception that ended the run, or NoException
    call     \* biorecovery_app.py: the last call made, with what it returned

vars == <<ns, raised, call>>

(***************************************************************************)
(* Fixed-point arithmetic                                                  *)
(***************************************************************************)
SCALE == 10^4

Abs(a) == IF a < 0 THEN -a ELSE a

Sgn(a) == IF a < 0 THEN -1 ELSE 1

\* n / d for n >= 0, d > 0, rounded to the nearest integer
RoundDiv(n, d) == (2 * n + d) \div (2 * d)

\* the decimal literal n/d, e.g. Dec(7, 10) is 0.7
Dec(n, d) == Sgn(n) * RoundDiv(Abs(n) * SCALE, d)

\* a * b for a, b >= 0 (split so that no intermediate exceeds 32 bits)
FMulAbs(a, b) ==
    LET ah == a \div SCALE
        al == a % SCALE
        bh == b \div SCALE
        bl == b % SCALE
    IN  ah * bh * SCALE + ah * bl + al * bh + RoundDiv(al * bl, SCALE)

\* the float product a * b
FMul(a, b) == Sgn(a) * Sgn(b) * FMulAbs(Abs(a), Abs(b))

\* the float sum a + b (exact on the fixed-point grid)
FAdd(a, b) == a + b

\* the float difference a - b
FSub(a, b) == a - b

\* digits of r / d below the unit, r < d, by long division in base 10
RECURSIVE LongDiv(_, _, _)
LongDiv(r, d, k) ==
    IF k = 1 THEN RoundDiv(r, d)
    ELSE LET q == (10 * r) \div d
             m == (10 * r) % d
         IN  q * (k \div 10) + LongDiv(m, d, k \div 10)

\* a / b for a >= 0, b > 0
FDivAbs(a, b) == (a \div b) * SCALE + LongDiv(a % b, b, SCALE)

\* the float quotient a / b, b # 0
FDiv(a, b) == Sgn(a) * Sgn(b) * FDivAbs(Abs(a), Abs(b))


\* e^-1 on the fixed-point grid
InvE == Dec(36788, 100000)

\* acc * e^-k for a natural k, by repeated multiplication (0 once it underflows)
RECURSIVE PowInvE(_, _)
PowInvE(acc, k) ==
    IF k = 0 \/ acc = 0 THEN acc ELSE PowInvE(FMul(InvE, acc), k - 1)

\* e^-r for 0 <= r < 1: the Taylor polynomial of degree n in Horner form
RECURSIVE ExpSeries(_, _, _)
ExpSeries(r, i, n) ==
    IF i > n THEN SCALE
    ELSE SCALE - FMul(RoundDiv(r, i), ExpSeries(r, i + 1, n))

\* np.exp(v) for v <= 0 (the only arguments the scripts pass): e^v is e^-k
\* times e^-r, k and r the integer and fractional parts of -v
\* (within a unit or two in the last place of the exact value; 1 at v = 0)
np_exp(v) ==
    LET u == -v
    IN  FMul(PowInvE(SCALE, u \div SCALE), ExpSeries(u % SCALE, 1, 8))

\* max(a, b) and min(a, b) of Python
Max(a, b) == IF a >= b THEN a ELSE b

Min(a, b) == IF a <= b THEN a ELSE b

\* d.get(k, default) with the default taken to be 1.0
dict_get_default_one(d, k, default) == IF k \in DOMAIN d THEN d[k] ELSE SCALE

\* d.get(k, default) of a Python dict
dict_get(d, k, default) == IF k \in DOMAIN d THEN d[k] ELSE default

(***************************************************************************)
(* src/biorecovery_app.py                                                  *)
(***************************************************************************)

\* the literature-based parameter table, lines 22-41
organisms ==
    [ org \in {"Acidithiobacillus ferrooxidans", "Leptospirillum spp.",
               "Acidithiobacillus thiooxidans"} |->
        CASE org = "Acidithiobacillus ferrooxidans" ->
               [pH_opt |-> Dec(20, 10), pH_sigma |-> Dec(7, 10),
                T_opt |-> Dec(30, 1), T_sigma |-> Dec(6, 1),
                K_O |-> Dec(5, 10),
                recovery_max |-> [Cu |-> Dec(85, 100), Au |-> Dec(50, 100),
                                  Pd |-> Dec(35, 100)]]
          [] org = "Leptospirillum spp." ->
               [pH_opt |-> Dec(15, 10), pH_sigma |-> Dec(6, 10),
                T_opt |-> Dec(40, 1), T_sigma |-> Dec(6, 1),
                K_O |-> Dec(6, 10),
                recovery_max |-> [Cu |-> Dec(80, 100), Au |-> Dec(40, 100),
                                  Pd |-> Dec(30, 100)]]
          [] org = "Acidithiobacillus thiooxidans" ->
               [pH_opt |-> Dec(18, 10), pH_sigma |-> Dec(6, 10),
                T_opt |-> Dec(28, 1), T_sigma |-> Dec(6, 1),
                K_O |-> Dec(6, 10),
                recovery_max |-> [Cu |-> Dec(82, 100), Au |-> Dec(35, 100),
                                  Pd |-> Dec(28, 100)]] ]

\* gauss_factor with a neutral factor 1.0 for a non-positive spread
gauss_factor_neutral(x, x_opt, sigma) ==
    IF sigma <= 0 THEN SCALE
    ELSE LET z == FDiv(FSub(x, x_opt), sigma)
         IN  np_exp(FMul(-Dec(5, 10), FMul(z, z)))

\* gauss_factor(x, x_opt, sigma), lines 44-49
gauss_factor(x, x_opt, sigma) ==
    IF sigma <= 0 THEN 0
    ELSE LET z == FDiv(FSub(x, x_opt), sigma)
         IN  np_exp(FMul(-Dec(5, 10), FMul(z, z)))

\* monod_factor dividing by K alone
monod_factor_over_K(O, K) ==
    LET O1 == IF O < 0 THEN 0 ELSE O
    IN  FDiv(O1, K)

\* monod_factor(O, K), lines 51-55; K + O # 0
monod_factor(O, K) ==
    LET O1 == IF O < 0 THEN 0 ELSE O
    IN  FDiv(O1, FAdd(K, O1))

\* the oxygen weighting with its two weights exchanged
oxygen_weight_swapped(f_O) == FAdd(Dec(4, 10), FMul(Dec(6, 10), f_O))

\* the oxygen weighting with 0.6 written for 0.4
oxygen_weight_heavy(f_O) == FAdd(Dec(6, 10), FMul(Dec(6, 10), f_O))

\* the oxygen weighting 0.6 + 0.4 * f_O of line 66
oxygen_weight(f_O) == FAdd(Dec(6, 10), FMul(Dec(4, 10), f_O))

\* the body of recovery_fraction after the table lookup, lines 60-68
recovery_of(params, pH, T, O, metal) ==
    LET f_pH == gauss_factor(pH, params.pH_opt, params.pH_sigma)
        f_T == gauss_factor(T, params.T_opt, params.T_sigma)
        f_O == monod_factor(O, params.K_O)
        base == dict_get(params.recovery_max, metal, 0)
        combined == FMul(FMul(FMul(base, f_pH), f_T), oxygen_weight(f_O))
    IN  Max(0, Min(SCALE, combined))

\* recovery_fraction(org_name, pH, T, O, metal), lines 57-68;
\* org_name a key of organisms
recovery_fraction(org_name, pH, T, O, metal) ==
    recovery_of(organisms[org_name], pH, T, O, metal)

\* the loop order of "for org in organisms.keys()", line 84
OrganismOrder ==
    << "Acidithiobacillus ferrooxidans", "Leptospirillum spp.",
       "Acidithiobacillus thiooxidans" >>

\* the slider ranges of lines 72-74 (pH and oxygen in tenths)
PH_LO10 == 5
PH_HI10 == 40
T_LO == 15
T_HI == 50
O_HI10 == 100

\* the operating points explored: pH in steps of 0.5 up to MaxPHSteps steps,
\* temperature in steps of 5 up to MaxTSteps steps, oxygen in steps of 2.0
\* from -MaxNegOSteps to MaxOSteps steps
MaxPHSteps == 8
MaxTSteps == 10
MaxOSteps == 5
MaxNegOSteps == 1

\* monod_factor is also explored on the slider's grid of 0.1, from
\* -MaxNegO10 / 10 to MaxO10 / 10
MaxO10 == 100
MaxNegO10 == 20

PHInputs == {Dec(5 * k, 10) : k \in 1..MaxPHSteps}

TInputs == {Dec(5 * k, 1) : k \in 1..MaxTSteps}

OCoarse == {Dec(20 * k, 10) : k \in -MaxNegOSteps..MaxOSteps}

OInputs == {Dec(k, 10) : k \in -MaxNegO10..MaxO10}

\* the positions among them that the sliders of lines 72-74 offer
PHSlider == {v \in PHInputs : Dec(PH_LO10, 10) <= v /\ v <= Dec(PH_HI10, 10)}

TSlider == {v \in TInputs : Dec(T_LO, 1) <= v /\ v <= Dec(T_HI, 1)}

OSlider == {v \in OCoarse : 0 <= v /\ v <= Dec(O_HI10, 10)}

\* the metals of the selectbox, line 77
MetalChoices == {"Cu", "Au", "Pd"}

KInputs == {organisms[o].K_O : o \in DOMAIN organisms} \cup {Dec(1, 1)}

SigmaInputs ==
    {organisms[o].pH_sigma : o \in DOMAIN organisms}
        \cup {organisms[o].T_sigma : o \in DOMAIN organisms}
        \cup {0, -Dec(6, 10), -Dec(6, 1)}

\* an organism's spread, or a non-positive value written in its place
SigmaEdits(sigma) == {sigma, 0, -Dec(6, 10)}

OptInputs ==
    {organisms[o].pH_opt : o \in DOMAIN organisms}
        \cup {organisms[o].T_opt : o \in DOMAIN organisms}

MetalInputs == MetalChoices \cup {"Ag"}

OrgInputs == DOMAIN organisms \cup {"Consortium"}

NoException == "none"

NoCall == [op |-> "none"]

\* a call of biorecovery_app.py is recorded; the functions keep no state, so
\* one call from the initial state stands for any call. EWASTE.py is another
\* process
Record(c) == call' = c /\ UNCHANGED <<ns, raised>>

\* one run of the script, lines 72-86: the sliders and the selectbox are read,
\* recovery_fraction is evaluated for every organism and the table rows built
RunApp ==
    /\ call = NoCall
    /\ \E pH \in PHSlider, temperature \in TSlider, oxygen \in OSlider,
       metal_choice \in MetalChoices :
        Record([op |-> "app", pH |-> pH, T |-> temperature, O |-> oxygen,
                 metal |-> metal_choice, exc |-> NoException,
                 rows |-> [i \in 1..Len(OrganismOrder) |->
                    [Bacteria |-> OrganismOrder[i],
                     pct |-> FMul(recovery_fraction(OrganismOrder[i], pH,
                                     temperature, oxygen, metal_choice),
                                  Dec(100, 1))]]])

\* gauss_factor called on its own
CallGauss ==
    /\ call = NoCall
    /\ \E x \in PHInputs \cup TInputs, x_opt \in OptInputs, sigma \in SigmaInputs :
        Record([op |-> "gauss_factor", x |-> x, x_opt |-> x_opt,
                 sigma |-> sigma, exc |-> NoException,
                 ret |-> gauss_factor(x, x_opt, sigma)])

\* monod_factor called on its own, K > 0
CallMonod ==
    /\ call = NoCall
    /\ \E O \in OInputs, K \in KInputs :
        Record([op |-> "monod_factor", O |-> O, K |-> K, exc |-> NoException,
                 ret |-> monod_factor(O, K)])

\* recovery_fraction called on its own; organisms[org_name] of line 59 raises
\* KeyError for a name that is not in the table
CallRecovery ==
    /\ call = NoCall
    /\ \E org_name \in OrgInputs, pH \in PHInputs, T \in TInputs, O \in OCoarse,
       metal \in MetalInputs :
        Record([op |-> "recovery_fraction", org |-> org_name, pH |-> pH,
                 T |-> T, O |-> O, metal |-> metal,
                 exc |-> IF org_name \in DOMAIN organisms
                         THEN NoException ELSE "KeyError",
                 ret |-> IF org_name \in DOMAIN organisms
                         THEN recovery_fraction(org_name, pH, T, O, metal)
                         ELSE 0])

\* recovery_fraction for a table entry whose spreads have been edited
CallRecoveryEdited ==
    /\ call = NoCall
    /\ \E org_name \in DOMAIN organisms, pH \in PHInputs, T \in TInputs,
          O \in OCoarse, metal \in MetalChoices :
       \E pH_sigma \in SigmaEdits(organisms[org_name].pH_sigma),
          T_sigma \in SigmaEdits(organisms[org_name].T_sigma) :
        /\ pH_sigma <= 0 \/ T_sigma <= 0
        /\ Record([op |-> "recovery_edited", org |-> org_name, pH |-> pH,
                    T |-> T, O |-> O, metal |-> metal, pH_sigma |-> pH_sigma,
                    T_sigma |-> T_sigma, exc |-> NoException,
                    ret |-> recovery_of([organisms[org_name] EXCEPT
                                            !.pH_sigma = pH_sigma,
                                            !.T_sigma = T_sigma],
                                        pH, T, O, metal)])

NextBio ==
    \/ RunApp
    \/ CallGauss
    \/ CallMonod
    \/ CallRecovery
    \/ CallRecoveryEdited

(***************************************************************************)
(* src/EWASTE.py                                                           *)
(***************************************************************************)

\* The floats of this script are modelled as exact rationals [n, d] in lowest
\* terms, d > 0: its arithmetic is +, * and / only.
RECURSIVE Gcd(_, _)
Gcd(a, b) == IF b = 0 THEN a ELSE Gcd(b, a % b)

\* the rational n / d, d # 0
Q(n, d) ==
    LET g == Gcd(Abs(n), Abs(d))
    IN  [n |-> (Sgn(d) * n) \div g, d |-> Abs(d) \div g]

\* the reciprocal of a, a # 0
RInv(a) == Q(a.d, a.n)

\* a * b, the common factors cancelled before multiplying
RMul(a, b) ==
    LET g1 == Gcd(Abs(a.n), b.d)
        g2 == Gcd(Abs(b.n), a.d)
    IN  Q((a.n \div g1) * (b.n \div g2), (a.d \div g2) * (b.d \div g1))

\* a + b, over the least common denominator
RAdd(a, b) ==
    LET g == Gcd(a.d, b.d)
    IN  Q(a.n * (b.d \div g) + b.n * (a.d \div g), (a.d \div g) * b.d)

\* a / b, b # 0
RDiv(a, b) == RMul(a, RInv(b))

RLe(a, b) == a.n * b.d <= b.n * a.d

\* a > 0
RPos(a) == a.n > 0

Zero == Q(0, 1)

\* np.nan: no rational, and so distinct from 0
NaN == [n |-> 0, d |-> 0]

\* the namespace with name bound to value
Bind(G, name, value) == (name :> value) @@ G

\* the first name of the sequence names that G does not bind, "" when all are
RECURSIVE FirstUnbound(_, _)
FirstUnbound(G, names) ==
    IF names = << >> THEN ""
    ELSE IF Head(names) \notin DOMAIN G THEN Head(names)
    ELSE FirstUnbound(G, Tail(names))

\* the sum, left to right, of the values G binds to the names
RECURSIVE SumOf(_, _)
SumOf(G, names) ==
    IF Len(names) = 1 THEN G[names[1]]
    ELSE RAdd(SumOf(G, SubSeq(names, 1, Len(names) - 1)), G[names[Len(names)]])

NoRaise == [type |-> NoException, name |-> "", line |-> 0]

NameError(name, line) == [type |-> "NameError", name |-> name, line |-> line]

\* st.sidebar.number_input: the values among cands the widget can return,
\* given its min_value and max_value arguments when it has them
number_input(cands, has_min, min_value, has_max, max_value) ==
    {v \in cands : /\ has_min => RLe(min_value, v)
                   /\ has_max => RLe(v, max_value)}

\* the bio recovery placeholders and cost factor per microbe, lines 76-87
MicrobeDefaults ==
    [ m \in {"A. ferrooxidans", "A. thiooxidans", "Leptospirillum", "Consortium"} |->
        CASE m = "A. ferrooxidans" ->
               [Au |-> Q(40, 100), Pd |-> Q(30, 100), Cu |-> Q(85, 100),
                factor |-> Q(10, 10)]
          [] m = "A. thiooxidans" ->
               [Au |-> Q(30, 100), Pd |-> Q(25, 100), Cu |-> Q(80, 100),
                factor |-> Q(9, 10)]
          [] m = "Leptospirillum" ->
               [Au |-> Q(35, 100), Pd |-> Q(28, 100), Cu |-> Q(82, 100),
                factor |-> Q(11, 10)]
          [] OTHER ->
               [Au |-> Q(55, 100), Pd |-> Q(40, 100), Cu |-> Q(90, 100),
                factor |-> Q(14, 10)] ]

\* a recovery percentage widget's value as a fraction, e.g. line 54
Percent(p) == RDiv(p, Q(100, 1))

\* the namespace after the imports and the sidebar section, lines 8-116;
\* w holds the values the widgets returned
Sidebar(w) ==
    [ st |-> "module", pd |-> "module", np |-> "module", plt |-> "module",
      io |-> "module",
      feed_tonnes |-> w.feed_tonnes,
      au_frac |-> w.au_frac,
      pd_frac |-> w.pd_frac,
      cu_frac |-> w.cu_frac,
      energy_cost |-> w.energy_cost,
      labor_cost_per_tonne |-> w.labor_cost_per_tonne,
      env_cost_proxy |-> w.env_cost_proxy,
      currency |-> w.currency,
      capex_per_tonne_pyro |-> w.capex_per_tonne_pyro,
      capex_per_tonne_hydro |-> Q(150, 1),
      capex_per_tonne_bio |-> Q(50, 1),
      capex_per_tonne_informal |-> Q(10, 1),
      pyro_energy_kwh_per_t |-> Q(1500, 1),
      pyro_chemicals_cost_per_t |-> Q(30, 1),
      pyro_recovery |-> [Au |-> Percent(w.pyro_au), Pd |-> Percent(w.pyro_pd),
                         Cu |-> Percent(w.pyro_cu)],
      hydro_energy_kwh_per_t |-> Q(300, 1),
      hydro_chemicals_cost_per_t |-> Q(300, 1),
      hydro_recovery |-> [Au |-> Percent(Q(98, 1)), Pd |-> Percent(Q(95, 1)),
                          Cu |-> Percent(Q(98, 1))],
      bio_energy_kwh_per_t_base |-> Q(50, 1),
      bio_base_chemicals_cost_per_t |-> Q(30, 1),
      microbe_choice |-> w.microbe_choice,
      bio_recovery |-> [Au |-> Percent(w.bio_au), Pd |-> Percent(w.bio_pd),
                        Cu |-> Percent(w.bio_cu)],
      microbe_cost_factor |-> MicrobeDefaults[w.microbe_choice].factor,
      informal_energy_kwh_per_t |-> Q(10, 1),
      informal_chem_cost_per_t |-> Q(5, 1),
      informal_recovery |-> [Au |-> Percent(Q(20, 1)), Pd |-> Percent(Q(15, 1)),
                             Cu |-> Percent(Q(50, 1))],
      bio_aeration_energy_per_t |-> Q(30, 1),
      bio_pH_control_cost_per_t |-> Q(20, 1),
      bio_culture_cost_per_t |->
          RMul(Q(15, 1), MicrobeDefaults[w.microbe_choice].factor),
      bio_energy_kwh_per_t |-> RAdd(Q(50, 1), Q(30, 1)),
      fmt |-> "function" ]

\* the feed metal masses, lines 124-127
FeedMasses(G) ==
    LET feed_kg == RMul(G.feed_tonnes, Q(1000, 1))
    IN  Bind(Bind(Bind(Bind(G,
            "feed_kg", feed_kg),
            "au_mass_kg", RMul(feed_kg, G.au_frac)),
            "pd_mass_kg", RMul(feed_kg, G.pd_frac)),
            "cu_mass_kg", RDiv(RMul(RMul(feed_kg, G.cu_frac), Q(1000, 1)),
                               Q(1000, 1)))

\* the global names the body of evaluate_method reads, in the order it reads
\* them, lines 132-138
BodyGlobals ==
    << "au_mass_kg", "pd_mass_kg", "cu_mass_kg", "energy_cost",
       "labor_cost_per_t", "env_cost_proxy" >>

\* the line of evaluate_method that first reads each of them
BodyLine ==
    [au_mass_kg |-> 132, pd_mass_kg |-> 133, cu_mass_kg |-> 134,
     energy_cost |-> 136, labor_cost_per_t |-> 138, env_cost_proxy |-> 138]

\* one entry of cost_per_kg, line 149
cost_per_kg_of(total_cost_per_t, val, total_recovered_mass_kg) ==
    IF RPos(val) /\ RPos(total_recovered_mass_kg)
    THEN RDiv(RMul(total_cost_per_t, RDiv(val, total_recovered_mass_kg)), val)
    ELSE NaN

\* cost_per_kg_mixture, lines 142-145
cost_per_kg_mixture_of(total_cost_per_t, total_recovered_mass_kg) ==
    IF RPos(total_recovered_mass_kg)
    THEN RDiv(total_cost_per_t, total_recovered_mass_kg)
    ELSE NaN

\* evaluate_method called in the namespace G, lines 130-164: the exception it
\* raises, or the record it returns
evaluate_method(G, name, energy_kwh_per_t, chem_cost_per_t, recovery_dict, capex_per_t) ==
    LET missing == FirstUnbound(G, BodyGlobals)
    IN  IF missing # "" THEN [exc |-> missing, result |-> << >>]
        ELSE
        LET au_rec_kg == RMul(G.au_mass_kg, recovery_dict.Au)
            pd_rec_kg == RMul(G.pd_mass_kg, recovery_dict.Pd)
            cu_rec_kg == RMul(G.cu_mass_kg, recovery_dict.Cu)
            energy_cost_total == RMul(energy_kwh_per_t, G.energy_cost)
            op_cost == RAdd(RAdd(RAdd(energy_cost_total, chem_cost_per_t),
                                 G.labor_cost_per_t), G.env_cost_proxy)
            total_cost_per_t == RAdd(op_cost, capex_per_t)
            total_recovered_mass_kg ==
                RAdd(RAdd(au_rec_kg, pd_rec_kg), cu_rec_kg)
        IN  [exc |-> "",
             result |->
               [name |-> name,
                energy_kwh_per_t |-> energy_kwh_per_t,
                energy_cost_total |-> energy_cost_total,
                chem_cost_per_t |-> chem_cost_per_t,
                op_cost |-> op_cost,
                capex_per_t |-> capex_per_t,
                total_cost_per_t |-> total_cost_per_t,
                au_rec_kg |-> au_rec_kg,
                pd_rec_kg |-> pd_rec_kg,
                cu_rec_kg |-> cu_rec_kg,
                total_recovered_mass_kg |-> total_recovered_mass_kg,
                cost_per_kg |->
                  [Au |-> cost_per_kg_of(total_cost_per_t, au_rec_kg,
                                         total_recovered_mass_kg),
                   Pd |-> cost_per_kg_of(total_cost_per_t, pd_rec_kg,
                                         total_recovered_mass_kg),
                   Cu |-> cost_per_kg_of(total_cost_per_t, cu_rec_kg,
                                         total_recovered_mass_kg)],
                cost_per_kg_mixture |->
                  cost_per_kg_mixture_of(total_cost_per_t,
                                         total_recovered_mass_kg)]]

\* the four calls of lines 167-170: the name assigned, the names each argument
\* expression reads, and the name the walrus of line 169 binds
CallSites ==
    << [line |-> 167, target |-> "pyro", label |-> "Pyrometallurgy",
        label_reads |-> << >>,
        energy |-> "pyro_energy_kwh_per_t",
        chem |-> << "pyro_chemicals_cost_per_t" >>,
        recovery |-> "pyro_recovery",
        capex |-> "capex_per_t_pyro", walrus |-> ""],
       [line |-> 168, target |-> "hydro", label |-> "Hydrometallurgy",
        label_reads |-> << >>,
        energy |-> "hydro_energy_kwh_per_t",
        chem |-> << "hydro_chemicals_cost_per_t" >>,
        recovery |-> "hydro_recovery",
        capex |-> "capex_per_t_hydro", walrus |-> ""],
       [line |-> 169, target |-> "bio", label |-> "Bioleaching",
        label_reads |-> << "microbe_choice" >>,
        energy |-> "bio_energy_kwh_per_t",
        chem |-> << "bio_base_chemicals_cost_per_t",
                    "bio_pH_control_cost_per_t", "bio_culture_cost_per_t" >>,
        recovery |-> "bio_recovery",
        capex |-> "capex_per_t_bio", walrus |-> "bio_per_t"],
       [line |-> 170, target |-> "informal", label |-> "Informal (Egypt)",
        label_reads |-> << >>,
        energy |-> "informal_energy_kwh_per_t",
        chem |-> << "informal_chem_cost_per_t" >>,
        recovery |-> "informal_recovery",
        capex |-> "capex_per_t_informal", walrus |-> ""] >>

\* the names a call site's arguments read, positional ones first
ArgReads(cs) ==
    cs.label_reads \o << cs.energy >> \o cs.chem \o << cs.recovery, cs.capex >>

\* the calls from the i-th on, then line 172; an exception ends the run
RECURSIVE RunCalls(_, _)
RunCalls(G, i) ==
    IF i > Len(CallSites)
    THEN [ns |-> Bind(G, "methods", [j \in 1..Len(CallSites) |-> G[CallSites[j].target]]),
          raised |-> NoRaise]
    ELSE
    LET cs == CallSites[i]
        missing == FirstUnbound(G, ArgReads(cs))
    IN  IF missing # "" THEN [ns |-> G, raised |-> NameError(missing, cs.line)]
        ELSE
        LET G2 == IF cs.walrus = "" THEN G ELSE Bind(G, cs.walrus, G[cs.capex])
            label == IF cs.label_reads = << >> THEN << cs.label >>
                     ELSE << cs.label, G[cs.label_reads[1]] >>
            r == evaluate_method(G2, label, G[cs.energy], SumOf(G, cs.chem),
                                 G[cs.recovery], G2[cs.capex])
        IN  IF r.exc # "" THEN [ns |-> G2, raised |-> NameError(r.exc, BodyLine[r.exc])]
            ELSE RunCalls(Bind(G2, cs.target, r.result), i + 1)

\* the script from its first line to line 172
RunOf(w) ==
    RunCalls(Bind(FeedMasses(Sidebar(w)), "evaluate_method", "function"), 1)

\* the widget values explored: feeds up to MaxFeedTonnes, metal fractions up
\* to MaxFracStep steps either side of zero
MaxFeedTonnes == 1
MaxFracStep == 1

FeedCandidates == {Zero, Q(1, 10)} \cup {Q(k, 1) : k \in 1..MaxFeedTonnes}

AuFracCandidates == {Q(5 * k, 10000) : k \in -MaxFracStep..MaxFracStep}

PdFracCandidates == {Q(2 * k, 10000) : k \in 0..MaxFracStep}

CuFracCandidates == {Q(2 * k, 10) : k \in -MaxFracStep..MaxFracStep}

\* what is typed into a recovery percentage widget whose default is p
PercentCandidates(p) == {Q(-5, 1), Zero, p, Q(105, 1)}

Microbes == DOMAIN MicrobeDefaults

EmptyNamespace == [n \in {} |-> 0]

\* one run of the script, lines 8-172, from the empty namespace every run
\* starts with: the widgets return their values, the feed masses are computed
\* and the four methods evaluated in turn
RunScript ==
    /\ ns = EmptyNamespace
    /\ \E feed_tonnes \in number_input(FeedCandidates, TRUE, Q(1, 10), FALSE, Zero),
          au_frac \in number_input(AuFracCandidates, FALSE, Zero, FALSE, Zero),
          pd_frac \in number_input(PdFracCandidates, FALSE, Zero, FALSE, Zero),
          cu_frac \in number_input(CuFracCandidates, FALSE, Zero, FALSE, Zero),
          currency \in {"USD", "EGP"},
          microbe_choice \in Microbes :
       \E pyro_au \in number_input(PercentCandidates(Q(95, 1)), TRUE, Zero, TRUE, Q(100, 1)),
          pyro_pd \in number_input(PercentCandidates(Q(90, 1)), TRUE, Zero, TRUE, Q(100, 1)),
          pyro_cu \in number_input(PercentCandidates(Q(95, 1)), TRUE, Zero, TRUE, Q(100, 1)),
          bio_au \in number_input(
                       PercentCandidates(RMul(MicrobeDefaults[microbe_choice].Au, Q(100, 1))),
                       TRUE, Zero, TRUE, Q(100, 1)),
          bio_pd \in number_input(
                       PercentCandidates(RMul(MicrobeDefaults[microbe_choice].Pd, Q(100, 1))),
                       TRUE, Zero, TRUE, Q(100, 1)),
          bio_cu \in number_input(
                       PercentCandidates(RMul(MicrobeDefaults[microbe_choice].Cu, Q(100, 1))),
                       TRUE, Zero, TRUE, Q(100, 1)) :
        LET w == [feed_tonnes |-> feed_tonnes, au_frac |-> au_frac,
                  pd_frac |-> pd_frac, cu_frac |-> cu_frac,
                  energy_cost |-> Q(6, 100),
                  labor_cost_per_tonne |-> Q(50, 1),
                  env_cost_proxy |-> Q(20, 1),
                  currency |-> currency,
                  capex_per_tonne_pyro |-> Q(200, 1),
                  microbe_choice |-> microbe_choice,
                  pyro_au |-> pyro_au, pyro_pd |-> pyro_pd, pyro_cu |-> pyro_cu,
                  bio_au |-> bio_au, bio_pd |-> bio_pd, bio_cu |-> bio_cu]
            run == RunOf(w)
        IN  /\ ns' = run.ns
            /\ raised' = run.raised
            /\ UNCHANGED call

(***************************************************************************)
(* Specifications                                                          *)
(***************************************************************************)
Init ==
    /\ ns = EmptyNamespace
    /\ raised = NoRaise
    /\ call = NoCall

Next == RunScript

\* EWASTE.py
Spec == Init /\ [][Next]_vars

\* biorecovery_app.py
SpecBio == Init /\ [][NextBio]_vars

(***************************************************************************)
(* Properties of EWASTE.py, checked under Spec                             *)
(***************************************************************************)

\* the script has run
Ran == ns # EmptyNamespace

Sites == 1..Len(CallSites)

Metals == {"Au", "Pd", "Cu"}

MassName == [Au |-> "au_mass_kg", Pd |-> "pd_mass_kg", Cu |-> "cu_mass_kg"]

RecField == [Au |-> "au_rec_kg", Pd |-> "pd_rec_kg", Cu |-> "cu_rec_kg"]

\* the sidebar's capex input of each method, lines 43-46
CapexInput ==
    << "capex_per_tonne_pyro", "capex_per_tonne_hydro", "capex_per_tonne_bio",
       "capex_per_tonne_informal" >>

\* the i-th call has returned its record
Returned(i) == CallSites[i].target \in DOMAIN ns

ResultOf(i) == ns[CallSites[i].target]

\* feed kg x fraction x recovery, from the inputs of the run
Recovered(i, m) == RMul(ns[MassName[m]], ns[CallSites[i].recovery][m])

TotalRecovered(i) ==
    RAdd(RAdd(Recovered(i, "Au"), Recovered(i, "Pd")), Recovered(i, "Cu"))

\* no metal fraction of the feed is negative
NonNegativeFeed ==
    /\ RLe(Zero, ns.au_frac)
    /\ RLe(Zero, ns.pd_frac)
    /\ RLe(Zero, ns.cu_frac)

\* C1: every run ends without an exception: each of the four calls finds every
\* name its arguments and the function body read bound, and returns a record.
C1_EveryEvaluationReturns ==
    Ran =>
        /\ raised = NoRaise
        /\ \A i \in Sites :
            /\ \A k \in 1..Len(ArgReads(CallSites[i])) :
                   ArgReads(CallSites[i])[k] \in DOMAIN ns
            /\ \A k \in 1..Len(BodyGlobals) : BodyGlobals[k] \in DOMAIN ns
            /\ Returned(i)

\* C2: with a non-negative feed, an evaluation whose total recovered mass is
\* zero returns a record whose cost_per_kg_mixture and every cost_per_kg entry
\* are NaN; one whose total is positive returns a record in which exactly the
\* metals with zero recovered mass have a NaN entry; NaN is not 0.
C2_ZeroMassGivesSentinel ==
    (Ran /\ NonNegativeFeed) =>
        \A i \in Sites :
            (\E m \in Metals : Recovered(i, m) = Zero) =>
                /\ Returned(i)
                /\ ~RPos(TotalRecovered(i)) =>
                       /\ ResultOf(i).cost_per_kg_mixture = NaN
                       /\ \A m \in Metals : ResultOf(i).cost_per_kg[m] = NaN
                /\ RPos(TotalRecovered(i)) =>
                       /\ ResultOf(i).cost_per_kg_mixture # NaN
                       /\ \A m \in Metals :
                              (ResultOf(i).cost_per_kg[m] = NaN)
                                  <=> (Recovered(i, m) = Zero)
                /\ NaN # Zero

\* C3: an evaluation whose total recovered mass is positive returns a record
\* with cost_per_kg_mixture * total_recovered_mass_kg = total_cost_per_t, and
\* with cost_per_kg = total_cost_per_t / total_recovered_mass_kg for every
\* metal whose recovered mass is positive.
C3_OneBlendedRate ==
    Ran =>
        \A i \in Sites :
            RPos(TotalRecovered(i)) =>
                /\ Returned(i)
                /\ RMul(ResultOf(i).cost_per_kg_mixture,
                        ResultOf(i).total_recovered_mass_kg)
                       = ResultOf(i).total_cost_per_t
                /\ \A m \in Metals :
                       RPos(Recovered(i, m)) =>
                           ResultOf(i).cost_per_kg[m]
                               = RDiv(ResultOf(i).total_cost_per_t,
                                      ResultOf(i).total_recovered_mass_kg)

\* C4: every evaluation returns a record whose energy_cost_total is the
\* method's energy times the electricity price and whose total_cost_per_t is
\* energy cost + chemicals + capex + labor + environmental proxy; for
\* pyrometallurgy at the defaults these are 90 and 390.
C4_FlatCostSum ==
    Ran =>
        /\ \A i \in Sites :
            /\ Returned(i)
            /\ ResultOf(i).energy_cost_total
                   = RMul(ns[CallSites[i].energy], ns.energy_cost)
            /\ ResultOf(i).total_cost_per_t
                   = RAdd(RAdd(RAdd(RAdd(ResultOf(i).energy_cost_total,
                                         SumOf(ns, CallSites[i].chem)),
                                    ns[CapexInput[i]]),
                               ns.labor_cost_per_tonne),
                          ns.env_cost_proxy)
        /\ ResultOf(1).energy_cost_total = Q(90, 1)
        /\ ResultOf(1).total_cost_per_t = Q(390, 1)

\* C5: with a non-negative feed, every evaluation returns a record in which
\* each metal's recovered mass lies between 0 and that metal's mass in the
\* feed, and total_recovered_mass_kg is the sum of the three.
C5_RecoveredWithinFeed ==
    (Ran /\ NonNegativeFeed) =>
        \A i \in Sites :
            /\ Returned(i)
            /\ \A m \in Metals :
                   /\ ResultOf(i)[RecField[m]] = Recovered(i, m)
                   /\ RLe(Zero, ResultOf(i)[RecField[m]])
                   /\ RLe(ResultOf(i)[RecField[m]], ns[MassName[m]])
            /\ ResultOf(i).total_recovered_mass_kg = TotalRecovered(i)

\* C8: no run proceeds with a negative metal fraction: the fractions the
\* widgets return, and the feed masses computed from them, are never negative.
C8_NegativeFractionRejected ==
    Ran =>
        /\ NonNegativeFeed
        /\ \A m \in Metals : RLe(Zero, ns[MassName[m]])

(***************************************************************************)
(* Properties of biorecovery_app.py, checked under SpecBio                 *)
(***************************************************************************)

\* the organism's recovery_max has an entry for the metal of the call
MetalKnown == call.metal \in DOMAIN organisms[call.org].recovery_max

\* recovery_fraction was called for an organism of the table
RecoveryCalled == call.op = "recovery_fraction" /\ call.exc = NoException

\* C6: recovery_fraction returns a value between 0 and recovery_max[metal],
\* itself at most 1, for every organism and metal of the table at any pH,
\* temperature and oxygen, negative oxygen included; so does every row of the
\* app's table, in percent.
C6_RecoveryWithinMax ==
    /\ (RecoveryCalled /\ MetalKnown) =>
           /\ 0 <= call.ret
           /\ call.ret <= organisms[call.org].recovery_max[call.metal]
           /\ call.ret <= SCALE
    /\ call.op = "app" =>
           \A i \in DOMAIN call.rows :
               /\ 0 <= call.rows[i].pct
               /\ call.rows[i].pct
                      <= FMul(organisms[call.rows[i].Bacteria].recovery_max[call.metal],
                              Dec(100, 1))

C6_Witness ==
    /\ RecoveryCalled
    /\ MetalKnown
    /\ call.O < 0
    /\ call.ret > 0

\* a spread that is not positive was passed
NonPositiveSpread ==
    \/ call.op = "gauss_factor" /\ call.sigma <= 0
    \/ call.op = "recovery_edited"

C9_AbsentMetalGivesZero ==
    (call.op = "recovery_fraction" /\ call.org \in DOMAIN organisms
        /\ ~MetalKnown)
        => (call.exc = NoException /\ call.ret = 0)

C9_Witness ==
    /\ RecoveryCalled
    /\ ~MetalKnown
    /\ call.ret = 0
    /\ recovery_fraction(call.org, call.pH, call.T, call.O, "Cu") > 0

\* the oxygen level after the clamp to >= 0
Clamped(O) == IF O < 0 THEN 0 ELSE O

\* C10: for K > 0, monod_factor(O, K) is O / (K + O) of the clamped O, to the
\* nearest representable value: 0 for O <= 0, 0.5 at O = K, below 1, and
\* strictly increasing in O over O >= 0.
C10_MonodShape ==
    call.op = "monod_factor" =>
        /\ call.K > 0
        /\ 2 * Abs(call.ret * (call.K + Clamped(call.O)) - Clamped(call.O) * SCALE)
               <= call.K + Clamped(call.O)
        /\ call.O <= 0 => call.ret = 0
        /\ call.O = call.K => call.ret = Dec(5, 10)
        /\ call.ret < SCALE
        /\ call.O >= 0 =>
               \A O2 \in OInputs :
                   O2 > call.O => monod_factor(O2, call.K) > call.ret

C10_Witness ==
    /\ call.op = "monod_factor"
    /\ call.O = call.K
    /\ call.ret = Dec(5, 10)

\* recovery_max[metal] * f_pH * f_T of the call, multiplied left to right
PHTLimited ==
    LET params == organisms[call.org]
    IN  FMul(FMul(dict_get(params.recovery_max, call.metal, 0),
                  gauss_factor(call.pH, params.pH_opt, params.pH_sigma)),
             gauss_factor(call.T, params.T_opt, params.T_sigma))

\* 0.6 + 0.4 * f_O of the call
OxygenFactor ==
    FAdd(Dec(6, 10),
         FMul(Dec(4, 10), monod_factor(call.O, organisms[call.org].K_O)))

\* C11: recovery_fraction returns recovery_max[metal] * f_pH * f_T *
\* (0.6 + 0.4 * f_O), the last factor in [0.6, 1.0): it is exactly 0.6 times
\* the pH/temperature-limited recovery for oxygen <= 0, never exceeds the
\* pH/temperature-limited recovery, and does not decrease as oxygen rises.
C11_OxygenOnlyScales ==
    RecoveryCalled =>
        /\ call.ret = FMul(PHTLimited, OxygenFactor)
        /\ Dec(6, 10) <= OxygenFactor
        /\ OxygenFactor < SCALE
        /\ call.O <= 0 => call.ret = FMul(PHTLimited, Dec(6, 10))
        /\ call.ret <= PHTLimited
        /\ \A O2 \in OCoarse \cup {FAdd(call.O, Dec(1, 10))} :
               O2 >= call.O =>
                   recovery_fraction(call.org, call.pH, call.T, O2, call.metal)
                       >= call.ret

C11_Witness ==
    /\ RecoveryCalled
    /\ MetalKnown
    /\ call.O > 0
    /\ call.ret < PHTLimited
    /\ call.ret > recovery_fraction(call.org, call.pH, call.T, 0, call.metal)

=============================================================================
